---- MODULE Spec2Model ----
(***************************************************************************)
(* Model of pybot.youpi2.app.YoupiApplication: the run/setup/loop/teardown *)
(* lifecycle of a Youpi2 application and its termination signal handler.   *)
(*                                                                         *)
(* The main thread's position in run() is `pc`.  Signal handlers execute   *)
(* on top of the main thread between two of its steps: `hstack` is the     *)
(* stack of active terminate() frames, and the main thread only advances   *)
(* when it is empty.  `calls` is the ordered record of every call made on  *)
(* an extension point, callback, logger, panel or arm.                     *)
(*                                                                         *)
(* The extension points setup/loop/teardown are inputs (the subclass):     *)
(* each of their calls returns (loop: a falsy or a truthy value) or        *)
(* raises.  The panel and the arm are external collaborators: each of      *)
(* their calls returns or raises.  The callbacks on_run_error,             *)
(* on_unexpected_error and on_terminate are the bodies of the source       *)
(* (pass).                                                                 *)
(***************************************************************************)
EXTENDS Integers, Sequences, FiniteSets, TLC

\* ------------------------------------------------------------------ bounds
MaxLoops == 2        \* calls of loop() a run can make
MaxSignals == 2      \* signals delivered to the process in one run

\* ------------------------------------------------------------ value sets
Signals == {"SIGINT", "SIGTERM"}
Terminal == {"returned", "propagated", "killed"}

VARIABLES
    pc,            \* position of the main thread in run(): the source line it is at
    pnl,           \* self.pnl: "None" or "ControlPanel"
    arm,           \* self.arm: "None" or "ArmClient"
    terminated,    \* self.terminated
    exit_code,     \* local exit_code of run(); -1 while unbound
    loop_stop,     \* local loop_stop of run()
    pending,       \* TRUE while an exception travels through the finally block
    retval,        \* value returned by run(); -1 while it has not returned
    handlers,      \* signal |-> "default" or "terminate"
    hstack,        \* active terminate() frames, innermost last
    sigs,          \* signals delivered so far, with where the main thread was
    calls          \* ordered record of the calls made

vars == <<pc, pnl, arm, terminated, exit_code, loop_stop, pending, retval,
          handlers, hstack, sigs, calls>>

locals == <<exit_code, loop_stop, pending, retval>>
resources == <<pnl, arm>>
sigstate == <<handlers, hstack, sigs>>

\* ------------------------------------------------------------ call record
Ev(op, arg, code) == [op |-> op, arg |-> arg, code |-> code]
Call(op) == Ev(op, "", -1)
Log(msg) == Ev("log_info", msg, -1)
Raise(src) == Ev("raise", src, -1)

Idx(op) == {i \in DOMAIN calls : calls[i].op = op}
Count(op) == Cardinality(Idx(op))
Raised(src) == \E i \in Idx("raise") : calls[i].arg = src
NothingRaised == Idx("raise") = {}

Main == hstack = <<>>
At(l) == Main /\ pc = l

\* ------------------------------------------------------------------- Init
\* __init__, l.70-77
Init ==
    /\ pc = "l100"
    /\ pnl = "None"
    /\ arm = "None"
    /\ terminated = FALSE
    /\ exit_code = -1
    /\ loop_stop = FALSE
    /\ pending = FALSE
    /\ retval = -1
    /\ handlers = [s \in Signals |-> "default"]
    /\ hstack = <<>>
    /\ sigs = <<>>
    /\ calls = <<>>

\* ------------------------------------------------------------ run, l.99-111
\* l.100: the starting banner
run_banner ==
    /\ At("l100")
    /\ pc' = "l103"
    /\ calls' = Append(calls, Call("log_starting_banner"))
    /\ UNCHANGED <<resources, terminated, locals, sigstate>>

\* mutant of run_pnl: the panel is created but not kept in self.pnl
run_pnl_unassigned ==
    /\ At("l103")
    /\ \/ /\ pc' = "l106"
          /\ calls' = calls \o <<Log("creating control panel device"), Call("ControlPanel")>>
       \/ /\ pc' = "propagated"
          /\ calls' = calls \o <<Log("creating control panel device"), Call("ControlPanel"),
                                 Raise("ControlPanel")>>
    /\ UNCHANGED <<resources, terminated, locals, sigstate>>

\* l.102-103: the panel is created, or ControlPanel(...) raises out of run
run_pnl ==
    /\ At("l103")
    /\ \/ /\ pnl' = "ControlPanel"
          /\ pc' = "l106"
          /\ calls' = calls \o <<Log("creating control panel device"), Call("ControlPanel")>>
       \/ /\ pnl' = pnl
          /\ pc' = "propagated"
          /\ calls' = calls \o <<Log("creating control panel device"), Call("ControlPanel"),
                                 Raise("ControlPanel")>>
    /\ UNCHANGED <<arm, terminated, locals, sigstate>>

\* mutant of run_arm: the failure of ArmClient(...) is swallowed and run goes on
run_arm_swallowed ==
    /\ At("l106")
    /\ \/ /\ arm' = "ArmClient"
          /\ calls' = calls \o <<Log("getting access to the arm nROS node"), Call("ArmClient")>>
       \/ /\ arm' = arm
          /\ calls' = calls \o <<Log("getting access to the arm nROS node"), Call("ArmClient"),
                                 Raise("ArmClient")>>
    /\ pc' = "l108"
    /\ UNCHANGED <<pnl, terminated, locals, sigstate>>

\* l.105-106: the arm client is created, or ArmClient(...) raises out of run
run_arm ==
    /\ At("l106")
    /\ \/ /\ arm' = "ArmClient"
          /\ pc' = "l108"
          /\ calls' = calls \o <<Log("getting access to the arm nROS node"), Call("ArmClient")>>
       \/ /\ arm' = arm
          /\ pc' = "propagated"
          /\ calls' = calls \o <<Log("getting access to the arm nROS node"), Call("ArmClient"),
                                 Raise("ArmClient")>>
    /\ UNCHANGED <<pnl, terminated, locals, sigstate>>

\* l.108: signal.signal(signal.SIGTERM, self.terminate)
run_install_sigterm ==
    /\ At("l108")
    /\ handlers' = [handlers EXCEPT !["SIGTERM"] = "terminate"]
    /\ pc' = "l109"
    /\ UNCHANGED <<resources, terminated, locals, hstack, sigs, calls>>

\* mutant of run_install_sigint: no handler is installed for SIGINT
run_install_sigint_skipped ==
    /\ At("l109")
    /\ pc' = "l111"
    /\ UNCHANGED <<resources, terminated, locals, sigstate, calls>>

\* l.109: signal.signal(signal.SIGINT, self.terminate)
run_install_sigint ==
    /\ At("l109")
    /\ handlers' = [handlers EXCEPT !["SIGINT"] = "terminate"]
    /\ pc' = "l111"
    /\ UNCHANGED <<resources, terminated, locals, hstack, sigs, calls>>

\* mutant of clear_screen: the title is written without clearing the panel
clear_screen_title_only == <<Ev("pnl.center_text_at", "TITLE", 1)>>

\* clear_screen, l.95-97: the calls it makes on the panel when both return
clear_screen == <<Call("pnl.clear"), Ev("pnl.center_text_at", "TITLE", 1)>>

\* clear_screen, l.95-97: the calls made when pnl.clear or pnl.center_text_at raises
clear_screen_raising ==
    { <<Call("pnl.clear"), Raise("pnl.clear")>>,
      <<Call("pnl.clear"), Ev("pnl.center_text_at", "TITLE", 1), Raise("pnl.center_text_at")>> }

\* l.111-113: self.clear_screen(), outside any try; exit_code = 0
run_clear_screen ==
    /\ At("l111")
    /\ \/ /\ calls' = calls \o clear_screen
          /\ exit_code' = 0
          /\ pc' = "l116"
       \/ /\ \E c \in clear_screen_raising : calls' = calls \o c
          /\ exit_code' = exit_code
          /\ pc' = "propagated"
    /\ UNCHANGED <<resources, terminated, loop_stop, pending, retval, sigstate>>

\* ------------------------------------------------- run, setup phase, l.114-122
\* l.115-116: self.setup(**args.__dict__) is entered
run_setup_call ==
    /\ At("l116")
    /\ calls' = calls \o <<Log("invoking application setup"), Call("setup")>>
    /\ pc' = "setup"
    /\ UNCHANGED <<resources, terminated, locals, sigstate>>

\* l.116: setup returns (else clause, l.123) or raises (except clause, l.117)
run_setup_end ==
    /\ At("setup")
    /\ \/ /\ calls' = Append(calls, Ev("return", "setup", -1))
          /\ pc' = "l125"
       \/ /\ calls' = Append(calls, Raise("setup"))
          /\ pc' = "l118"
    /\ UNCHANGED <<resources, terminated, locals, sigstate>>

\* mutants of run_setup_except: the finally clause also covers a setup error;
\* exit_code = 1 is left out
run_setup_except_finally ==
    /\ At("l118")
    /\ calls' = calls \o <<Call("log_exception"), Call("on_run_error"), Call("pnl.display_error")>>
    /\ exit_code' = 1
    /\ pc' = "l136"
    /\ UNCHANGED <<resources, terminated, loop_stop, pending, retval, sigstate>>

run_setup_except_no_exit_code ==
    /\ At("l118")
    /\ calls' = calls \o <<Call("log_exception"), Call("on_run_error"), Call("pnl.display_error")>>
    /\ pc' = "l145"
    /\ UNCHANGED <<resources, terminated, locals, sigstate>>

\* l.118-122, the except clause of setup: self.log_exception(e);
\* self.on_run_error(e) (l.173-174: pass); self.pnl.display_error(e);
\* exit_code = 1.  When display_error raises, the error leaves run from inside
\* the clause and exit_code is not assigned.
run_setup_except ==
    /\ At("l118")
    /\ \/ /\ calls' = calls \o <<Call("log_exception"), Call("on_run_error"),
                                 Call("pnl.display_error")>>
          /\ exit_code' = 1
          /\ pc' = "l145"
       \/ /\ calls' = calls \o <<Call("log_exception"), Call("on_run_error"),
                                 Call("pnl.display_error"), Raise("pnl.display_error")>>
          /\ exit_code' = exit_code
          /\ pc' = "propagated"
    /\ UNCHANGED <<resources, terminated, loop_stop, pending, retval, sigstate>>

\* -------------------------------------------------- run, loop phase, l.124-134
\* mutant of run_loop_start: the flag is initialised again with loop_stop
run_loop_start_resets_flag ==
    /\ At("l125")
    /\ calls' = Append(calls, Log("starting application loop"))
    /\ loop_stop' = FALSE
    /\ terminated' = FALSE
    /\ pc' = "l127"
    /\ UNCHANGED <<resources, exit_code, pending, retval, sigstate>>

\* l.125-126: log, loop_stop = False
run_loop_start ==
    /\ At("l125")
    /\ calls' = Append(calls, Log("starting application loop"))
    /\ loop_stop' = FALSE
    /\ pc' = "l127"
    /\ UNCHANGED <<resources, terminated, exit_code, pending, retval, sigstate>>

\* mutants of loop_condition: the flag is not read; the stop indicator is not
\* read
loop_condition_ignores_terminated(t, ls) == ~ls

loop_condition_ignores_stop(t, ls) == ~t

\* l.127: the condition of the while statement
loop_condition(t, ls) == ~t /\ ~ls

\* mutant of run_loop_test: the condition is not evaluated before the first
\* iteration, as in a do-while loop
run_loop_test_after_first ==
    /\ At("l127")
    /\ pc' = IF Count("loop") = 0 \/ loop_condition(terminated, loop_stop) THEN "l128" ELSE "l136"
    /\ UNCHANGED <<resources, terminated, locals, sigstate, calls>>

\* l.127: while not self.terminated and not loop_stop
run_loop_test ==
    /\ At("l127")
    /\ pc' = IF loop_condition(terminated, loop_stop) THEN "l128" ELSE "l136"
    /\ UNCHANGED <<resources, terminated, locals, sigstate, calls>>

\* l.128: self.loop() is entered
run_loop_call ==
    /\ At("l128")
    /\ Count("loop") < MaxLoops
    /\ calls' = Append(calls, Call("loop"))
    /\ pc' = "loop"
    /\ UNCHANGED <<resources, terminated, locals, sigstate>>

\* mutant of run_loop_end: the value returned by loop is discarded
run_loop_end_discards_result ==
    /\ At("loop")
    /\ \/ /\ \E v \in BOOLEAN :
                /\ loop_stop' = FALSE
                /\ calls' = Append(calls, Ev("return", IF v THEN "truthy" ELSE "falsy", -1))
          /\ pc' = "l127"
       \/ /\ calls' = Append(calls, Raise("loop"))
          /\ loop_stop' = loop_stop
          /\ pc' = "l130"
    /\ UNCHANGED <<resources, terminated, exit_code, pending, retval, sigstate>>

\* l.128: loop returns and loop_stop is bound to its value, or it raises (l.129)
run_loop_end ==
    /\ At("loop")
    /\ \/ /\ \E v \in BOOLEAN :
                /\ loop_stop' = v
                /\ calls' = Append(calls, Ev("return", IF v THEN "truthy" ELSE "falsy", -1))
          /\ pc' = "l127"
       \/ /\ calls' = Append(calls, Raise("loop"))
          /\ loop_stop' = loop_stop
          /\ pc' = "l130"
    /\ UNCHANGED <<resources, terminated, exit_code, pending, retval, sigstate>>

\* mutant of run_loop_except: exit_code = 1 is left out
run_loop_except_no_exit_code ==
    /\ At("l130")
    /\ calls' = calls \o <<Call("log_exception"), Call("on_unexpected_error"),
                           Call("pnl.display_error")>>
    /\ pc' = "l136"
    /\ UNCHANGED <<resources, terminated, locals, sigstate>>

\* l.130-134, the except clause of the loop: self.log_exception(e);
\* self.on_unexpected_error(e) (l.176-177: pass); self.pnl.display_error(e);
\* exit_code = 1.  When display_error raises, exit_code is not assigned and the
\* finally clause runs with that error pending.
run_loop_except ==
    /\ At("l130")
    /\ \/ /\ calls' = calls \o <<Call("log_exception"), Call("on_unexpected_error"),
                                 Call("pnl.display_error")>>
          /\ exit_code' = 1
          /\ pending' = pending
       \/ /\ calls' = calls \o <<Call("log_exception"), Call("on_unexpected_error"),
                                 Call("pnl.display_error"), Raise("pnl.display_error")>>
          /\ exit_code' = exit_code
          /\ pending' = TRUE
    /\ pc' = "l136"
    /\ UNCHANGED <<resources, terminated, loop_stop, retval, sigstate>>

\* ----------------------------------------------- run, finally clause, l.135-143
\* l.137: the call self.pnl.center_text_at('terminating', 3)
terminating == Ev("pnl.center_text_at", "terminating", 3)

\* mutant of run_finally_display: the screen is not cleared before the message
run_finally_display_no_clear ==
    /\ At("l136")
    /\ calls' = Append(calls, terminating)
    /\ pc' = "l140"
    /\ UNCHANGED <<resources, terminated, locals, sigstate>>

\* l.136-137: self.clear_screen(); self.pnl.center_text_at('terminating', 3).
\* An error raised by one of the panel calls leaves the clause and run.
run_finally_display ==
    /\ At("l136")
    /\ \/ /\ calls' = calls \o clear_screen \o <<terminating>>
          /\ pc' = "l140"
       \/ /\ \E c \in clear_screen_raising : calls' = calls \o c
          /\ pc' = "propagated"
       \/ /\ calls' = calls \o clear_screen \o <<terminating, Raise("pnl.center_text_at")>>
          /\ pc' = "propagated"
    /\ UNCHANGED <<resources, terminated, locals, sigstate>>

\* mutant of run_teardown_call: teardown always receives 0
run_teardown_call_zero ==
    /\ At("l140")
    /\ calls' = calls \o <<Log("invoking application teardown"), Ev("teardown", "", 0)>>
    /\ pc' = "teardown"
    /\ UNCHANGED <<resources, terminated, locals, sigstate>>

\* l.139-140: self.teardown(exit_code) is entered
run_teardown_call ==
    /\ At("l140")
    /\ calls' = calls \o <<Log("invoking application teardown"), Ev("teardown", "", exit_code)>>
    /\ pc' = "teardown"
    /\ UNCHANGED <<resources, terminated, locals, sigstate>>

\* l.140: teardown returns, or raises out of the finally clause and out of run
run_teardown_end ==
    /\ At("teardown")
    /\ \/ /\ calls' = Append(calls, Ev("return", "teardown", -1))
          /\ pc' = "l142"
       \/ /\ calls' = Append(calls, Raise("teardown"))
          /\ pc' = "propagated"
    /\ UNCHANGED <<resources, terminated, locals, sigstate>>

\* l.142-143: self.arm.soft_hi_Z(), logged; the finally clause ends, and an
\* error pending from the except clause is raised again
run_soft_hi_Z ==
    /\ At("l142")
    /\ \/ /\ calls' = calls \o <<Call("arm.soft_hi_Z"), Log("arm set in Hi-Z")>>
          /\ pc' = IF pending THEN "propagated" ELSE "l145"
       \/ /\ calls' = calls \o <<Call("arm.soft_hi_Z"), Raise("arm.soft_hi_Z")>>
          /\ pc' = "propagated"
    /\ UNCHANGED <<resources, terminated, locals, sigstate>>

\* mutant of run_return: run returns 0 whatever exit_code holds
run_return_zero ==
    /\ At("l145")
    /\ calls' = Append(calls, Log("returning"))
    /\ retval' = 0
    /\ pc' = "returned"
    /\ UNCHANGED <<resources, terminated, exit_code, loop_stop, pending, sigstate>>

\* l.145-146: return exit_code
run_return ==
    /\ At("l145")
    /\ calls' = Append(calls, Log("returning"))
    /\ retval' = exit_code
    /\ pc' = "returned"
    /\ UNCHANGED <<resources, terminated, exit_code, loop_stop, pending, sigstate>>

\* ------------------------------------------------------ signals, l.90-93
Top == hstack[Len(hstack)]
InHandler(l) == hstack # <<>> /\ Top.hpc = l
Goto(l) == [hstack EXCEPT ![Len(hstack)].hpc = l]

\* A signal reaches the process while run() is in progress.  With terminate
\* installed for it (l.108-109) a terminate(sig, frame) call starts on top of
\* whatever is executing.  Otherwise the disposition is the one the process
\* started with: SIGTERM ends the process, SIGINT raises KeyboardInterrupt in
\* the interrupted code, which run() encloses in no try statement before l.114.
deliver(sig) ==
    /\ pc \notin Terminal
    /\ Len(sigs) < MaxSignals
    /\ sigs' = Append(sigs, [sig |-> sig, at |-> pc, depth |-> Len(hstack),
                             pos |-> Len(calls), loops |-> Count("loop"),
                             handled |-> handlers[sig] = "terminate"])
    /\ IF handlers[sig] = "terminate"
       THEN /\ hstack' = Append(hstack, [sig |-> sig, hpc |-> "l91", id |-> Len(sigs) + 1])
            /\ pc' = pc
       ELSE /\ hstack' = <<>>
            /\ pc' = IF sig = "SIGTERM" THEN "killed" ELSE "propagated"
    /\ UNCHANGED <<resources, terminated, locals, handlers, calls>>

\* mutant of terminate_set: the flag is not set
terminate_set_forgotten ==
    /\ InHandler("l91")
    /\ hstack' = Goto("l92")
    /\ UNCHANGED <<pc, resources, terminated, locals, handlers, sigs, calls>>

\* l.91: self.terminated = True
terminate_set ==
    /\ InHandler("l91")
    /\ terminated' = TRUE
    /\ hstack' = Goto("l92")
    /\ UNCHANGED <<pc, resources, locals, handlers, sigs, calls>>

\* mutant of terminate_log: the signal name is written on the panel
terminate_log_on_panel ==
    /\ InHandler("l92")
    /\ calls' = Append(calls, Ev("pnl.center_text_at", Top.sig, Top.id))
    /\ hstack' = Goto("l93")
    /\ UNCHANGED <<pc, resources, terminated, locals, handlers, sigs>>

\* l.92: self.log_info('!! signal %s caught', _sig_names[sig])
terminate_log ==
    /\ InHandler("l92")
    /\ calls' = Append(calls, Ev("log_info", Top.sig, Top.id))
    /\ hstack' = Goto("l93")
    /\ UNCHANGED <<pc, resources, terminated, locals, handlers, sigs>>

\* l.93: self.on_terminate(sig, frame) is entered
terminate_on_terminate ==
    /\ InHandler("l93")
    /\ calls' = Append(calls, Ev("on_terminate", Top.sig, Top.id))
    /\ hstack' = Goto("on_terminate")
    /\ UNCHANGED <<pc, resources, terminated, locals, handlers, sigs>>

\* mutant of on_terminate: the end of the handler unwinds a call of loop in
\* progress, as an exception raised by the handler would
on_terminate_unwinds ==
    /\ InHandler("on_terminate")
    /\ calls' = Append(calls, Ev("return", "on_terminate", Top.id))
    /\ hstack' = SubSeq(hstack, 1, Len(hstack) - 1)
    /\ pc' = IF pc = "loop" THEN "l130" ELSE pc
    /\ UNCHANGED <<resources, terminated, locals, handlers, sigs>>

\* l.179-180: on_terminate is `pass`; it returns, and so does terminate
on_terminate ==
    /\ InHandler("on_terminate")
    /\ calls' = Append(calls, Ev("return", "on_terminate", Top.id))
    /\ hstack' = SubSeq(hstack, 1, Len(hstack) - 1)
    /\ UNCHANGED <<pc, resources, terminated, locals, handlers, sigs>>

\* ------------------------------------------------------------ specification
Next ==
    \/ run_banner
    \/ run_pnl
    \/ run_arm
    \/ run_install_sigterm
    \/ run_install_sigint
    \/ run_clear_screen
    \/ run_setup_call
    \/ run_setup_end
    \/ run_setup_except
    \/ run_loop_start
    \/ run_loop_test
    \/ run_loop_call
    \/ run_loop_end
    \/ run_loop_except
    \/ run_finally_display
    \/ run_teardown_call
    \/ run_teardown_end
    \/ run_soft_hi_Z
    \/ run_return
    \/ \E sig \in Signals : deliver(sig)
    \/ terminate_set
    \/ terminate_log
    \/ terminate_on_terminate
    \/ on_terminate

Spec == Init /\ [][Next]_vars

\* The interpreter keeps executing: whenever the main thread or a terminate
\* call has a next statement, it is eventually executed, and a call in progress
\* eventually ends.  Nothing obliges the environment to send a signal.
FairSpec == Spec /\ WF_vars(Next /\ sigs' = sigs)

TypeOK ==
    /\ pnl \in {"None", "ControlPanel"}
    /\ arm \in {"None", "ArmClient"}
    /\ terminated \in BOOLEAN
    /\ exit_code \in {-1, 0, 1}
    /\ retval \in {-1, 0, 1}
    /\ Len(sigs) <= MaxSignals
    /\ Len(hstack) <= Len(sigs)
    /\ Count("loop") <= MaxLoops

\* ------------------------------------------------- reading the call record
Returned == pc = "returned"
Ended == pc \in {"returned", "propagated"}
SetupReturned == \E i \in Idx("return") : calls[i].arg = "setup"
OnlyRaise(src) == Raised(src) /\ Cardinality(Idx("raise")) = 1
ExitCodesOf(op) == {calls[i].code : i \in Idx(op)}
Before(I, J) == \A i \in I : \A j \in J : i < j

\* ---------------------------------------------------------------------- C1
\* C1 as stated: whenever run has returned, whichever way the run ended
\* (stop indicator, setup error, loop error, signal), teardown has been invoked
\* exactly once and arm.soft_hi_Z exactly once.
C1_TeardownOnEveryPath ==
    Returned => Count("teardown") = 1 /\ Count("arm.soft_hi_Z") = 1

\* C1 amended: teardown and arm.soft_hi_Z are never invoked more than once;
\* whenever run has returned after setup returned (the loop ended by a stop
\* indicator, a loop error or a signal) each has been invoked exactly once; and
\* whenever run has returned after setup raised, neither has been invoked.
C1_TeardownOnceAfterSetup ==
    /\ Count("teardown") <= 1
    /\ Count("arm.soft_hi_Z") <= 1
    /\ Returned /\ ~Raised("setup") => Count("teardown") = 1 /\ Count("arm.soft_hi_Z") = 1
    /\ Returned /\ Raised("setup") => Count("teardown") = 0 /\ Count("arm.soft_hi_Z") = 0

\* a run that a signal ended has returned, teardown and soft_hi_Z done
C1_Witness ==
    Returned /\ terminated /\ ~loop_stop /\ Count("loop") >= 1 /\ Count("arm.soft_hi_Z") = 1

\* ---------------------------------------------------------------------- C2
\* C2: once setup has raised, loop is never invoked and on_unexpected_error is
\* never invoked, on_run_error is invoked exactly once (as soon as the except
\* clause has passed l.119), and when run returns it returns 1.
C2_SetupError ==
    Raised("setup") =>
        /\ Count("loop") = 0
        /\ Count("on_unexpected_error") = 0
        /\ Count("on_run_error") = (IF pc = "l118" THEN 0 ELSE 1)
        /\ Returned => retval = 1

\* run has returned after setup raised
C2_Witness == Returned /\ Raised("setup") /\ Count("on_run_error") = 1

\* ---------------------------------------------------------------------- C3
\* C3: in a run where setup returned and a call of loop raised (the only error
\* of the run), loop is not called again after that call, on_unexpected_error
\* is invoked exactly once (as soon as the except clause has passed l.131),
\* teardown is invoked at most once and only with exit_code 1, soft_hi_Z is
\* invoked only after teardown; and when run returns, teardown and soft_hi_Z
\* have each been invoked exactly once and the value returned is 1.
C3_LoopError ==
    OnlyRaise("loop") =>
        /\ SetupReturned
        /\ \A r \in Idx("raise") : \A l \in Idx("loop") : l < r
        /\ Count("on_unexpected_error") = (IF pc = "l130" THEN 0 ELSE 1)
        /\ Count("teardown") <= 1
        /\ ExitCodesOf("teardown") \subseteq {1}
        /\ Before(Idx("teardown"), Idx("arm.soft_hi_Z"))
        /\ Count("arm.soft_hi_Z") <= Count("teardown")
        /\ Returned => /\ Count("teardown") = 1
                       /\ Count("arm.soft_hi_Z") = 1
                       /\ retval = 1

\* run has returned after the second or a later call of loop raised
C3_Witness == Returned /\ OnlyRaise("loop") /\ Count("loop") >= 2

\* ---------------------------------------------------------------------- C4
\* the k-th signal was handled by terminate and its terminate frame has returned
Handled(k) ==
    \E i \in Idx("return") : calls[i].arg = "on_terminate" /\ calls[i].code = k
\* the k-th signal, handled by terminate, came after a call of loop had ended
\* and before the next one started: the main thread was at l.127 or l.128
BetweenLoopCalls(k) == sigs[k].handled /\ sigs[k].loops >= 1 /\ sigs[k].at \in {"l127", "l128"}
LoopCallsAfter(k) == {i \in Idx("loop") : i > sigs[k].pos}
OnTerminateOf(k) == {i \in Idx("on_terminate") : calls[i].code = k}

\* C4 as stated: in a run in which nothing raises, after a signal delivered
\* between two loop calls no further loop call is executed.
C4_NoFurtherLoopCall ==
    \A k \in 1..Len(sigs) :
        BetweenLoopCalls(k) /\ NothingRaised => LoopCallsAfter(k) = {}

\* C4 amended: in a run in which nothing raises, a signal delivered between two
\* loop calls makes terminated true and invokes on_terminate exactly once for
\* that signal; when it is delivered before the while condition of l.127 is
\* evaluated no further loop call is executed, and when it is delivered after
\* the condition was evaluated (the main thread is at l.128) exactly the one
\* call already decided is executed and none after it; the run then goes to
\* teardown with exit_code 0 and returns 0.
C4_SignalBetweenLoopCalls ==
    \A k \in 1..Len(sigs) :
        BetweenLoopCalls(k) /\ NothingRaised =>
            /\ Cardinality(OnTerminateOf(k)) <= 1
            /\ Handled(k) => terminated /\ Cardinality(OnTerminateOf(k)) = 1
            /\ sigs[k].at = "l127" => LoopCallsAfter(k) = {}
            /\ sigs[k].at = "l128" => Cardinality(LoopCallsAfter(k)) <= 1
            /\ sigs[k].at = "l128" /\ pc \in {"l136", "l140", "teardown", "l142",
                                              "l145", "returned"}
                  => Cardinality(LoopCallsAfter(k)) = 1
            /\ ExitCodesOf("teardown") \subseteq {0}
            /\ Returned => Count("teardown") = 1 /\ retval = 0

\* a signal came between two loop calls before the condition was evaluated, and
\* the run has returned
C4_Witness ==
    /\ Returned /\ NothingRaised /\ ~loop_stop
    /\ \E k \in 1..Len(sigs) : BetweenLoopCalls(k) /\ sigs[k].at = "l127"

\* ---------------------------------------------------------------------- C5
\* the values the calls of loop returned, in order
LoopReturns ==
    SelectSeq(calls, LAMBDA e : e.op = "return" /\ e.arg \in {"falsy", "truthy"})

\* C5: loop is never invoked again after a call of it returned a truthy value;
\* and when run has returned from a run with no signal in which nothing raised
\* (setup returned), the calls of loop returned falsy N-1 times and then truthy
\* for some N >= 1, loop was invoked exactly N times, and the value returned
\* is 0.
C5_LoopUntilStop ==
    /\ \A i \in Idx("return") : calls[i].arg = "truthy" => \A l \in Idx("loop") : l < i
    /\ Returned /\ sigs = <<>> /\ NothingRaised =>
          LET r == LoopReturns
              N == Len(r)
          IN  /\ SetupReturned
              /\ N >= 1
              /\ r[N].arg = "truthy"
              /\ \A i \in 1..(N - 1) : r[i].arg = "falsy"
              /\ Count("loop") = N
              /\ retval = 0

\* a run whose loop stopped on its last possible call has returned
C5_Witness ==
    Returned /\ sigs = <<>> /\ NothingRaised /\ Count("loop") = MaxLoops /\ loop_stop

\* ---------------------------------------------------------------------- C6
\* the calls of the finally clause, l.136-142: those on the panel are the ones
\* made after setup was entered
FinClear ==
    LET s == Idx("setup") IN {i \in Idx("pnl.clear") : \E j \in s : j < i}
FinTitle ==
    LET s == Idx("setup")
    IN  {i \in Idx("pnl.center_text_at") : calls[i].arg = "TITLE" /\ \E j \in s : j < i}
FinTerminating == {i \in Idx("pnl.center_text_at") : calls[i].arg = "terminating"}
\* the ends of the calls of loop
LoopEnds == {i \in DOMAIN calls :
                \/ calls[i].op = "return" /\ calls[i].arg \in {"falsy", "truthy"}
                \/ calls[i].op = "raise" /\ calls[i].arg = "loop"}

\* C6: once setup has returned, a run that ends (returning or with an error
\* leaving run) has entered the finally clause whatever the loop outcome; the
\* steps of the clause happen one after the other in the order clear, title,
\* 'terminating', teardown(exit_code), soft_hi_Z, none of them without the one
\* before it, all of them once when run returns; and none of them happens
\* before every call of loop has ended.
C6_TeardownOrder ==
    LET clear == FinClear
        title == FinTitle
        msg == FinTerminating
        td == Idx("teardown")
        hiz == Idx("arm.soft_hi_Z")
        loops == Idx("loop")
        ends == LoopEnds
    IN  /\ Ended /\ SetupReturned => clear # {}
        /\ Cardinality(clear) <= 1
        /\ Cardinality(title) <= Cardinality(clear) /\ Before(clear, title)
        /\ Cardinality(msg) <= Cardinality(title) /\ Before(title, msg)
        /\ Cardinality(td) <= Cardinality(msg) /\ Before(msg, td)
        /\ Cardinality(hiz) <= Cardinality(td) /\ Before(td, hiz)
        /\ Returned /\ SetupReturned => Cardinality(hiz) = 1
        /\ Before(loops \cup ends, clear)
        /\ clear # {} => pc # "loop" /\ Cardinality(ends) = Cardinality(loops)

\* a run whose loop raised has gone through the whole finally clause
C6_Witness == Returned /\ Raised("loop") /\ Count("arm.soft_hi_Z") = 1 /\ Count("loop") >= 2

\* ---------------------------------------------------------------------- C7
\* C7 as stated: once the finally clause has been entered, soft_hi_Z has been
\* invoked by the time the run ends, also when the run ends with an error that
\* teardown or a panel call of the clause raised.
C7_SafeStateUnconditional ==
    Ended /\ FinClear # {} => Count("arm.soft_hi_Z") = 1

\* ---------------------------------------------------------------------- C8
\* C8: when run has returned, the value returned is 1 if setup or a call of
\* loop raised and 0 otherwise (stop indicator or signal), and every call of
\* teardown received that value as exit_code.
C8_ExitCode ==
    Returned =>
        /\ retval = (IF Raised("setup") \/ Raised("loop") THEN 1 ELSE 0)
        /\ ExitCodesOf("teardown") \subseteq {retval}

\* run has returned 1 after teardown was invoked
C8_Witness == Returned /\ retval = 1 /\ Count("teardown") = 1

\* ---------------------------------------------------------------------- C9
\* C9: terminated is false at construction; no step sets it back to false; and
\* the only step that changes it is l.91 of terminate, so it goes from false to
\* true at most once, however many signals are delivered.
C9_TerminatedOnlySetByHandler ==
    /\ terminated = FALSE
    /\ [][/\ terminated => terminated'
          /\ terminated' # terminated => InHandler("l91") /\ terminated']_vars

\* two signals have been handled and the flag is true
C9_Witness ==
    /\ terminated /\ Len(sigs) >= 2 /\ hstack = <<>>
    /\ \A k \in 1..Len(sigs) : sigs[k].handled

\* --------------------------------------------------------------------- C10
\* C10: in every state in which a terminate frame is past l.91 (it is logging,
\* about to invoke on_terminate, or on_terminate is executing) terminated is
\* true; every on_terminate call follows the log of the same delivery's signal
\* name; and a terminate call that has returned has logged and invoked
\* on_terminate exactly once.
C10_FlagSetBeforeOnTerminate ==
    /\ \A f \in 1..Len(hstack) : hstack[f].hpc # "l91" => terminated
    /\ \A i \in Idx("on_terminate") :
          \E j \in 1..(i - 1) : /\ calls[j].op = "log_info"
                                /\ calls[j].code = calls[i].code
                                /\ calls[j].arg = calls[i].arg
    /\ \A k \in 1..Len(sigs) :
          /\ Handled(k) => Cardinality(OnTerminateOf(k)) = 1
          /\ \A i \in OnTerminateOf(k) : calls[i].arg = sigs[k].sig

\* on_terminate is executing for a signal that interrupted another terminate call
C10_Witness == Len(hstack) = 2 /\ InHandler("on_terminate")

\* --------------------------------------------------------------------- C11
\* C11: once ControlPanel(...) or ArmClient(...) has raised, the error has left
\* run: nothing is returned, neither constructor is called again, no handler
\* is installed, and setup, loop, teardown, the error callbacks and soft_hi_Z
\* are never invoked (nor ArmClient after ControlPanel raised).
C11_AcquisitionFailure ==
    Raised("ControlPanel") \/ Raised("ArmClient") =>
        /\ pc = "propagated" /\ retval = -1
        /\ Count("ControlPanel") = 1 /\ Count("ArmClient") <= 1
        /\ Raised("ControlPanel") => Count("ArmClient") = 0 /\ pnl = "None"
        /\ arm = "None"
        /\ \A sig \in Signals : handlers[sig] = "default"
        /\ \A op \in {"setup", "loop", "teardown", "on_run_error", "on_unexpected_error",
                      "arm.soft_hi_Z", "pnl.clear"} : Count(op) = 0

\* the arm client could not be created after the panel was
C11_Witness == Raised("ArmClient") /\ pnl = "ControlPanel" /\ pc = "propagated"

\* --------------------------------------------------------------------- C12
\* both handlers are installed when the main thread is at one of these
Installed == {"l111", "l116", "setup", "l118", "l125", "l127", "l128", "loop", "l130",
              "l136", "l140", "teardown", "l142", "l145"}
InLoop == {"l127", "l128", "loop"}
\* a signal was delivered after the handlers were installed (and not to a run
\* that the bound MaxLoops holds at l.128), or loop has returned a truthy value
ExitRequested ==
    \/ \E k \in 1..Len(sigs) : /\ sigs[k].handled
                               /\ sigs[k].at \in Installed
                               /\ ~(sigs[k].at = "l128" /\ sigs[k].loops = MaxLoops)
    \/ \E i \in Idx("return") : calls[i].arg = "truthy"
GracefulReturn == Returned /\ Count("teardown") = 1 /\ Count("arm.soft_hi_Z") = 1

TerminateLogs == {i \in Idx("log_info") : calls[i].code >= 1}
\* the k-th signal was delivered while a call of loop was executing
DuringLoop(k) == sigs[k].handled /\ sigs[k].at = "loop"

\* C13: a signal delivered during a call of loop does not interrupt that call:
\* the main thread stays inside the call while terminate runs, the call ends
\* by its own return or raise (exactly one end of a loop call follows the
\* delivery once the main thread has left the call), and no call of loop is
\* ever started after it; in every run at most one call of loop completes
\* after the flag became true.
C13_SignalDuringLoopCall ==
    /\ \A k \in 1..Len(sigs) : DuringLoop(k) =>
          /\ ~Handled(k) => pc = "loop" /\ Count("loop") = sigs[k].loops
          /\ \/ pc = "loop" /\ {i \in LoopEnds : i > sigs[k].pos} = {}
             \/ pc # "loop" /\ Cardinality({i \in LoopEnds : i > sigs[k].pos}) = 1
          /\ Count("loop") = sigs[k].loops
          /\ pc # "l128"
    /\ LET T == TerminateLogs
       IN  Cardinality({j \in LoopEnds : \E i \in T : i < j}) <= 1

\* a call of loop that a signal found executing has returned a falsy value
\* after terminate ended, and the run has returned with no further call
C13_Witness ==
    /\ Returned /\ ~loop_stop /\ NothingRaised
    /\ \E k \in 1..Len(sigs) : DuringLoop(k) /\ Handled(k) /\ sigs[k].loops = MaxLoops - 1

\* --------------------------------------------------------------------- C14
\* the three calls of an except clause, made once each and in the order of the
\* source, after the error that the clause caught
HandledInOrder(src, callback) ==
    /\ Count("log_exception") = 1 /\ Count(callback) = 1 /\ Count("pnl.display_error") = 1
    /\ Before({i \in Idx("raise") : calls[i].arg = src}, Idx("log_exception"))
    /\ Before(Idx("log_exception"), Idx(callback))
    /\ Before(Idx(callback), Idx("pnl.display_error"))

\* C14: once an error raised by setup (resp. by loop) has been caught and the
\* main thread has left the except clause, the error has been logged, then
\* on_run_error (resp. on_unexpected_error) invoked, then display_error called,
\* and the exit code is 1: all four steps, for every such error.
C14_FourStepsForEveryError ==
    /\ Raised("setup") /\ pc # "l118" =>
          HandledInOrder("setup", "on_run_error") /\ exit_code = 1
    /\ Raised("loop") /\ pc # "l130" =>
          HandledInOrder("loop", "on_unexpected_error") /\ exit_code = 1

\* --------------------------------------------------------------------- C15
\* the main thread is logging the banner or acquiring the resources
Acquiring == {"l100", "l103", "l106"}
\* the main thread is between the start of setup and the return of run
FromSetup == Installed \ {"l111"}

\* C15: a handler is installed only by a step that takes a signal from its
\* default disposition to terminate, with both resources acquired and setup
\* not yet invoked (so at most once per signal); both are installed whenever
\* setup has been invoked; every signal delivered from the start of setup to
\* the return of run is handled by terminate, and no signal delivered during
\* the banner or the acquisition of the resources is.
C15_HandlersInstalledOnce ==
    /\ [][handlers' # handlers =>
             /\ \E sig \in Signals : /\ handlers[sig] = "default"
                                     /\ handlers' = [handlers EXCEPT ![sig] = "terminate"]
             /\ pnl # "None" /\ arm # "None"
             /\ Count("setup") = 0]_vars
    /\ [](Count("setup") >= 1 => \A sig \in Signals : handlers[sig] = "terminate")
    /\ [](\A k \in 1..Len(sigs) : /\ sigs[k].at \in FromSetup => sigs[k].handled
                                  /\ sigs[k].at \in Acquiring => ~sigs[k].handled)

\* a SIGINT delivered during teardown was handled by terminate and run returned
C15_Witness ==
    /\ Returned
    /\ \E k \in 1..Len(sigs) : sigs[k].sig = "SIGINT" /\ sigs[k].at = "teardown" /\ Handled(k)

\* --------------------------------------------------------------------- C16
ResourcesSet == pnl # "None" /\ arm # "None"
\* the extension points and callbacks that run or terminate invoke
ExtensionPoints == {"setup", "loop", "teardown", "on_run_error", "on_unexpected_error",
                    "on_terminate"}

\* C16 as stated: in every state from the entry of run onward both pnl and arm
\* are set.
C16_NonNullFromEntry == ResourcesSet

\* C16 amended: both pnl and arm are set in every state from the end of the
\* acquisition (l.106) onward: whenever the main thread is at l.108 or later
\* in run, whenever run has returned, whenever a call of terminate is in
\* progress, and whenever setup, loop, teardown, an error callback or
\* on_terminate has been invoked; and arm is never set without pnl.
C16_NonNullOnceAcquired ==
    /\ pc \in {"l108", "l109"} \cup Installed \cup {"returned"} => ResourcesSet
    /\ hstack # <<>> => ResourcesSet
    /\ (\E op \in ExtensionPoints : Count(op) >= 1) => ResourcesSet
    /\ arm # "None" => pnl # "None"

\* terminate is executing on top of a call of teardown, both resources set
C16_Witness == hstack # <<>> /\ pc = "teardown" /\ ResourcesSet /\ Count("on_unexpected_error") = 1

\* --------------------------------------------------------------------- C17
\* a step of a delivery to terminate: the delivery itself, a statement of
\* terminate or of on_terminate, or their return
TerminateStep ==
    /\ hstack # <<>> \/ hstack' # <<>>
    /\ sigs' # sigs => sigs'[Len(sigs')].handled
\* what the step adds to the record of calls
Added == SubSeq(calls', Len(calls) + 1, Len(calls'))

\* C17: every step of a delivery to terminate, wherever the main thread is,
\* leaves pnl, arm, the exit code, the pending error, loop_stop, the value
\* returned, the installed handlers and the position of the main thread as
\* they were; it makes no call on the panel or on the arm (the record of calls
\* grows only by terminate's log entry and the call and return of
\* on_terminate), so the number of soft_hi_Z calls is unchanged; the flag is
\* the only variable of the application that it changes.
C17_HandlerFrame ==
    [][TerminateStep =>
          /\ UNCHANGED <<pnl, arm, exit_code, pending, loop_stop, retval, handlers, pc>>
          /\ SubSeq(calls', 1, Len(calls)) = calls
          /\ \A i \in DOMAIN Added : /\ Added[i].op \in {"log_info", "on_terminate", "return"}
                                     /\ Added[i].code >= 1
          /\ Count("arm.soft_hi_Z")' = Count("arm.soft_hi_Z")
          /\ terminated => terminated']_vars

\* a signal delivered during teardown has been handled, teardown still executing
C17_Witness ==
    /\ pc = "teardown" /\ hstack = <<>> /\ terminated /\ exit_code = 0
    /\ \E k \in 1..Len(sigs) : sigs[k].at = "teardown" /\ Handled(k) /\ sigs[k].sig = "SIGTERM"

\* --------------------------------------------------------------------- C18
\* the k-th signal was delivered to terminate while setup was executing
DuringSetup(k) == sigs[k].handled /\ sigs[k].at = "setup"

\* C18: once setup has returned in a run where a signal was delivered to
\* terminate during setup, the flag is true, loop is never invoked (the main
\* thread never reaches l.128), the exit code stays 0, teardown and soft_hi_Z
\* are invoked at most once and teardown only with 0; and when the finally
\* clause has completed each has been invoked exactly once and run returns 0.
C18_SignalDuringSetup ==
    \A k \in 1..Len(sigs) : DuringSetup(k) /\ SetupReturned =>
        /\ Handled(k) /\ terminated
        /\ Count("loop") = 0 /\ pc \notin {"l128", "loop", "l130"}
        /\ exit_code = 0
        /\ Count("teardown") <= 1 /\ Count("arm.soft_hi_Z") <= 1
        /\ ExitCodesOf("teardown") \subseteq {0}
        /\ pc \in {"l145", "returned"} => Count("teardown") = 1 /\ Count("arm.soft_hi_Z") = 1
        /\ Returned => retval = 0

\* run has returned 0 without a call of loop after a signal during setup
C18_Witness ==
    /\ Returned /\ retval = 0 /\ Count("loop") = 0 /\ Count("teardown") = 1
    /\ \E k \in 1..Len(sigs) : DuringSetup(k)

\* --------------------------------------------------------------------- C19
ErrorCallbacks == Count("on_run_error") + Count("on_unexpected_error")

\* C19: on_run_error and on_unexpected_error are invoked at most once in total
\* in a run (so never both, and neither twice); and when run has returned, an
\* error callback has been invoked if and only if the value returned is 1.
C19_OneErrorCallback ==
    /\ ErrorCallbacks <= 1
    /\ Returned => (ErrorCallbacks = 1 <=> retval = 1)
    /\ Returned => retval \in {0, 1}

\* run has returned 1 after on_unexpected_error, a signal handled meanwhile
C19_Witness ==
    /\ Returned /\ retval = 1 /\ Count("on_unexpected_error") = 1 /\ Count("on_run_error") = 0
    /\ terminated

\* --------------------------------------------------------------------- C20
\* the panel shows an error: display_error was called after every pnl.clear
ShowsError ==
    LET c == Idx("pnl.clear") IN \E i \in Idx("pnl.display_error") : \A j \in c : j < i

\* C20: when run has returned, the panel shows the error exactly when setup
\* raised; and when run has returned after a call of loop raised,
\* display_error was followed by the pnl.clear of the finally clause and then
\* by the 'terminating' message, after which no call is made on the panel.
C20_ErrorShownOnlyAfterSetupError ==
    /\ Returned => (ShowsError <=> Raised("setup"))
    /\ Returned /\ Raised("loop") =>
          /\ Count("pnl.display_error") = 1
          /\ \E j \in Idx("pnl.clear") :
                /\ Before(Idx("pnl.display_error"), {j})
                /\ Before({j}, FinTerminating)
          /\ FinTerminating # {}
          /\ \A i \in DOMAIN calls :
                (\E t \in FinTerminating : t < i) =>
                    calls[i].op \notin {"pnl.clear", "pnl.center_text_at", "pnl.display_error"}

\* run has returned after a loop error whose rendering was cleared
C20_Witness ==
    /\ Returned /\ Raised("loop") /\ ~ShowsError
    /\ Count("pnl.display_error") = 1 /\ FinTerminating # {}
====
